---- MODULE Spec2Model ----
(***************************************************************************)
(* Model of the lofreq command dispatcher, src/lofreq/lofreq_main.c.       *)
(* One behaviour is one run of main(argc, argv).  C strings are sequences  *)
(* of character codes (the terminating 0 is implicit), pointers are        *)
(* tagged pairs, stdout and stderr are character streams.                  *)
(***************************************************************************)
EXTENDS Integers, Sequences, FiniteSets, TLC

\* ------------------------------------------------------------------ bounds
\* Largest argc explored.
MaxArgc == 4

\* ------------------------------------------------------- string literals
S_call    == <<99,97,108,108>>                      \* "call"
S_filter  == <<102,105,108,116,101,114>>            \* "filter"
S_version == <<118,101,114,115,105,111,110>>        \* "version"
S_Call    == <<67,97,108,108>>                      \* "Call"
S_calls   == <<99,97,108,108,115>>                  \* "calls"
S_filt    == <<102,105,108,116>>                    \* "filt"
S_bogus   == <<98,111,103,117,115>>                 \* "bogus"
S_empty   == <<>>                                   \* ""
S_x       == <<120>>                                \* "x"
S_y       == <<121>>                                \* "y"
S_lofreq  == <<108,111,102,114,101,113>>            \* "lofreq"
S_binlofreq == <<46,47,98,105,110,47,108,111,102,114,101,113>>  \* "./bin/lofreq"
S_null    == <<40,110,117,108,108,41>>              \* "(null)"

\* "lofreq2_filter.py"
FILTER_EXE == <<108,111,102,114,101,113,50,95,102,105,108,116,101,114,46,112,121>>
\* compile-time constants of the build
PACKAGE_NAME    == <<108,111,102,114,101,113>>      \* "lofreq"
PACKAGE_VERSION == <<50,46,48,46,48>>               \* "2.0.0"

\* ": Fast and sensitive inference of single-nucleotide variants\n"
U_headline == <<58,32,70,97,115,116,32,97,110,100,32,115,101,110,115,105,116,105,118,101,32,105,110,102,101,114,101,110,99,101,32,111,102,32,115,105,110,103,108,101,45,110,117,99,108,101,111,116,105,100,101,32,118,97,114,105,97,110,116,115,10>>
U_nl == <<10>>                                      \* "\n"
U_usage == <<85,115,97,103,101,58,32>>              \* "Usage: "
\* " <command> [options], where command is one of:\n"
U_command == <<32,60,99,111,109,109,97,110,100,62,32,91,111,112,116,105,111,110,115,93,44,32,119,104,101,114,101,32,99,111,109,109,97,110,100,32,105,115,32,111,110,101,32,111,102,58,10>>
\* "  call    : call variants\n"
U_call == <<32,32,99,97,108,108,32,32,32,32,58,32,99,97,108,108,32,118,97,114,105,97,110,116,115,10>>
\* "  version : prints version\n"
U_version == <<32,32,118,101,114,115,105,111,110,32,58,32,112,114,105,110,116,115,32,118,101,114,115,105,111,110,10>>
\* "  filter : filter variants\n"
U_filter == <<32,32,102,105,108,116,101,114,32,58,32,102,105,108,116,101,114,32,118,97,114,105,97,110,116,115,10>>
\* "Calling lofreq2_filter.py via execvp failed"
P_msg == <<67,97,108,108,105,110,103,32,108,111,102,114,101,113,50,95,102,105,108,116,101,114,46,112,121,32,118,105,97,32,101,120,101,99,118,112,32,102,97,105,108,101,100>>
P_colon == <<58,32>>                                \* ": "
\* "Unrecognized command '" and "'\n"
F_open  == <<85,110,114,101,99,111,103,110,105,122,101,100,32,99,111,109,109,97,110,100,32,39>>
F_close == <<39,10>>
\* prefix written by the fatal-level logger: "Critical error: "
F_level == <<67,114,105,116,105,99,97,108,32,101,114,114,111,114,58,32>>

\* errno values execvp can leave, and their strerror texts
E_ENOENT == <<78,111,32,115,117,99,104,32,102,105,108,101,32,111,114,32,100,105,114,101,99,116,111,114,121>>
E_EFAULT == <<66,97,100,32,97,100,100,114,101,115,115>>
E_EACCES == <<80,101,114,109,105,115,115,105,111,110,32,100,101,110,105,101,100>>
Strerror == {E_ENOENT, E_EFAULT, E_EACCES}

\* ------------------------------------------------------------- pointers
NULL    == <<"null", <<>>>>
Garbage == <<"wild", <<>>>>
Ptr(s)  == <<"str", s>>

\* ------------------------------------------------------------ the inputs
ProgNames == {S_lofreq, S_binlofreq}
Commands  == {S_call, S_filter, S_version, S_Call, S_calls, S_filt, S_bogus, S_empty}
Extras    == {S_x, S_y}
\* values the call handler is sampled to return (int is 32 bits wide)
HandlerReturns == {(-2147483647) - 1, -1, 0, 1, 7, 255, 256, 2147483647}

ArgVectors(n) ==
    { v \in [1..n -> ProgNames \cup Commands \cup Extras] :
        /\ n >= 1 => v[1] \in ProgNames
        /\ n >= 2 => v[2] \in Commands
        /\ \A k \in 3..n : v[k] \in Extras }

\* ---------------------------------------------------- string primitives
CharAt(s, k) == IF k <= Len(s) THEN s[k] ELSE 0

RECURSIVE strcmpFrom(_, _, _)
strcmpFrom(a, b, k) ==
    IF CharAt(a, k) # CharAt(b, k) THEN CharAt(a, k) - CharAt(b, k)
    ELSE IF CharAt(a, k) = 0 THEN 0
    ELSE strcmpFrom(a, b, k + 1)

\* a comparison that stops at the end of the literal b
strncmp_prefix(a, b) ==
    IF Len(a) >= Len(b) THEN strcmpFrom(SubSeq(a, 1, Len(b)), b, 1)
    ELSE strcmpFrom(a, b, 1)

strcmp(a, b) == strcmpFrom(a, b, 1)

\* position of the last '/' (code 47) of s, 0 when there is none
RECURSIVE LastSlash(_, _)
LastSlash(s, k) ==
    IF k = 0 THEN 0 ELSE IF s[k] = 47 THEN k ELSE LastSlash(s, k - 1)

BASENAME(s) ==
    IF LastSlash(s, Len(s)) = 0 THEN s
    ELSE SubSeq(s, LastSlash(s, Len(s)) + 1, Len(s))

\* t occurs in s as a contiguous run
Contains(s, t) ==
    \E k \in 0..(Len(s) - Len(t)) : SubSeq(s, k + 1, k + Len(t)) = t

\* c1 followed by c2 ... : what a sequence of fprintf calls leaves on a stream
RECURSIVE Concat(_)
Concat(parts) ==
    IF parts = <<>> THEN <<>> ELSE Head(parts) \o Concat(Tail(parts))

\* the text usage(myname) writes to stderr
UsageText(myname) ==
    Concat(<<PACKAGE_NAME, U_headline, U_nl, U_usage, myname, U_command,
             U_call, U_version, U_filter, U_nl>>)

\* fprintf(stdout, "%s\n", PACKAGE_VERSION)
VersionText_nonewline == PACKAGE_VERSION
VersionText == PACKAGE_VERSION \o U_nl

\* what LOG_FATAL("Unrecognized command '%s'\n", token) writes to stderr
FatalText(token) == Concat(<<F_level, F_open, token, F_close>>)

\* perror(P_msg) with errno's text e
PerrorText(e) == Concat(<<P_msg, P_colon, e, U_nl>>)

\* ------------------------------------------------------------- dispatch
\* the subcommand test reading the last argument instead of argv[1]
Branch_lastarg(c, v) ==
    IF c < 2 THEN "usage"
    ELSE IF strcmp(v[c], S_call) = 0 THEN "call"
    ELSE IF strcmp(v[c], S_filter) = 0 THEN "filter"
    ELSE IF strcmp(v[c], S_version) = 0 THEN "version"
    ELSE "unrecognized"

\* the if / else-if chain of main
Branch(c, v) ==
    IF c < 2 THEN "usage"
    ELSE IF strcmp(v[2], S_call) = 0 THEN "call"
    ELSE IF strcmp(v[2], S_filter) = 0 THEN "filter"
    ELSE IF strcmp(v[2], S_version) = 0 THEN "version"
    ELSE "unrecognized"

\* main_call(argc, argv): the handler sees the unshifted vector
CallArgs_unshifted(c, v) == [n |-> c, v |-> v]
\* main_call(argc-1, argv+1)
CallArgs(c, v) == [n |-> c - 1, v |-> SubSeq(v, 2, c)]

\* calloc(argc, sizeof(char*))
CallocCount_argc(c) == c
\* calloc(argc-1, sizeof(char*))
CallocCount(c) == c - 1

\* a zero-filled block of n pointers
Zeroed(n) == [k \in 1..n |-> NULL]

\* argv_execvp[k] = p for a C index k inside the block
Store(slots, k, p) == [slots EXCEPT ![k + 1] = p]

\* the words execvp reads starting at the block: everything up to the first
\* null pointer
RECURSIVE UpToNull(_)
UpToNull(words) ==
    IF words = <<>> THEN <<>>
    ELSE IF Head(words) = NULL THEN <<>>
    ELSE <<Head(words)>> \o UpToNull(Tail(words))

\* what can lie in memory right behind the block: a null word, or a word
\* that is not null (heap metadata) followed by a null word
HeapAfter == {<<NULL>>, <<Garbage, NULL>>}

\* execvp that comes back with 0 after a successful launch
ExecvpOutcomes_returns0 == {[replaced |-> FALSE, r |-> 0], [replaced |-> FALSE, r |-> -1]}
\* execvp: replaces the process image, or returns -1
ExecvpOutcomes == {[replaced |-> TRUE, r |-> 0], [replaced |-> FALSE, r |-> -1]}

\* ---------------------------------------------------------------- state
VARIABLES argc, argv, pc, ret, out, err, logged, callLog,
          argv_execvp, heapAfter, written, i, execLog, execRet, errtxt,
          freed, taken

vars == <<argc, argv, pc, ret, out, err, logged, callLog,
          argv_execvp, heapAfter, written, i, execLog, execRet, errtxt,
          freed, taken>>

\* argv[k] for a C index k; argv[argc] is the null pointer
Arg(k) == IF k < argc THEN Ptr(argv[k + 1]) ELSE NULL

Init ==
    /\ argc \in 0..MaxArgc
    /\ argv \in ArgVectors(argc)
    /\ pc = "main"
    /\ ret = <<>>
    /\ out = <<>>
    /\ err = <<>>
    /\ logged = <<>>
    /\ callLog = <<>>
    /\ argv_execvp = [null |-> TRUE, slots |-> <<>>]
    /\ heapAfter = <<NULL>>
    /\ written = {}
    /\ i = 0
    /\ execLog = <<>>
    /\ execRet = 0
    /\ errtxt = <<>>
    /\ freed = FALSE
    /\ taken = {}

\* if (argc < 2) { usage(BASENAME(argv[0])); return 1; }
\* With argc = 0, argv[0] is the null pointer: BASENAME and "%s" read through
\* it, which either faults or prints the C library's "(null)".
Usage ==
    /\ pc = "main"
    /\ Branch(argc, argv) = "usage"
    /\ taken' = taken \cup {"usage"}
    /\ IF Arg(0) = NULL
       THEN \/ /\ pc' = "crashed"
               /\ UNCHANGED <<err, ret>>
            \/ /\ err' = err \o UsageText(S_null)
               /\ ret' = <<1>>
               /\ pc' = "done"
       ELSE /\ err' = err \o UsageText(BASENAME(argv[1]))
            /\ ret' = <<1>>
            /\ pc' = "done"
    /\ UNCHANGED <<argc, argv, out, logged, callLog, argv_execvp, heapAfter,
                   written, i, execLog, execRet, errtxt, freed>>

\* return main_call(argc-1, argv+1);
Call ==
    /\ pc = "main"
    /\ Branch(argc, argv) = "call"
    /\ taken' = taken \cup {"call"}
    /\ \E r \in HandlerReturns :
          /\ callLog' = Append(callLog, [args |-> CallArgs(argc, argv), r |-> r])
          /\ ret' = <<r>>
    /\ pc' = "done"
    /\ UNCHANGED <<argc, argv, out, err, logged, argv_execvp, heapAfter,
                   written, i, execLog, execRet, errtxt, freed>>

\* char **argv_execvp = calloc(argc-1, sizeof(char*));
FilterCalloc ==
    /\ pc = "main"
    /\ Branch(argc, argv) = "filter"
    /\ taken' = taken \cup {"filter"}
    /\ \/ /\ argv_execvp' = [null |-> FALSE, slots |-> Zeroed(CallocCount(argc))]
          /\ heapAfter' \in HeapAfter
       \/ /\ argv_execvp' = [null |-> TRUE, slots |-> <<>>]
          /\ UNCHANGED heapAfter
    /\ pc' = "store0"
    /\ UNCHANGED <<argc, argv, ret, out, err, logged, callLog, written, i,
                   execLog, execRet, errtxt, freed>>

\* argv_execvp[0] = argv[0];  (a store through a null pointer faults)
FilterStoreName ==
    /\ pc = "store0"
    /\ IF argv_execvp.null
       THEN /\ pc' = "crashed"
            /\ UNCHANGED <<argv_execvp, written, i>>
       ELSE /\ argv_execvp' = [argv_execvp EXCEPT !.slots = Store(@, 0, Arg(0))]
            /\ written' = written \cup {0}
            /\ i' = 2
            /\ pc' = "loop"
    /\ UNCHANGED <<argc, argv, ret, out, err, logged, callLog, heapAfter,
                   execLog, execRet, errtxt, freed, taken>>

\* for (i=2; i<argc; i++) argv_execvp[i-1] = argv[i];
FilterLoop ==
    /\ pc = "loop"
    /\ i < argc
    /\ argv_execvp' = [argv_execvp EXCEPT !.slots = Store(@, i - 1, Arg(i))]
    /\ written' = written \cup {i - 1}
    /\ i' = i + 1
    /\ UNCHANGED <<argc, argv, pc, ret, out, err, logged, callLog, heapAfter,
                   execLog, execRet, errtxt, freed, taken>>

\* execvp("lofreq2_filter.py", argv_execvp)
FilterExecvp ==
    /\ pc = "loop"
    /\ ~(i < argc)
    /\ execLog' = Append(execLog,
                     [file  |-> FILTER_EXE,
                      args  |-> UpToNull(argv_execvp.slots \o heapAfter),
                      slots |-> argv_execvp.slots])
    /\ \E o \in ExecvpOutcomes :
          IF o.replaced
          THEN /\ pc' = "replaced"
               /\ UNCHANGED <<execRet, errtxt>>
          ELSE /\ pc' = "exec_returned"
               /\ execRet' = o.r
               /\ errtxt' \in Strerror
    /\ UNCHANGED <<argc, argv, ret, out, err, logged, callLog, argv_execvp,
                   heapAfter, written, i, freed, taken>>

\* if (execvp(...)) { perror(...); free(argv_execvp); return -1; }
\* else { free(argv_execvp); return 0; }
FilterAfterExecvp ==
    /\ pc = "exec_returned"
    /\ IF execRet # 0
       THEN /\ err' = err \o PerrorText(errtxt)
            /\ freed' = TRUE
            /\ ret' = <<-1>>
       ELSE /\ freed' = TRUE
            /\ ret' = <<0>>
            /\ UNCHANGED err
    /\ pc' = "done"
    /\ UNCHANGED <<argc, argv, out, logged, callLog, argv_execvp, heapAfter,
                   written, i, execLog, execRet, errtxt, taken>>

\* fprintf(stdout, "%s\n", PACKAGE_VERSION); return 0;
Version ==
    /\ pc = "main"
    /\ Branch(argc, argv) = "version"
    /\ taken' = taken \cup {"version"}
    /\ out' = out \o VersionText
    /\ ret' = <<0>>
    /\ pc' = "done"
    /\ UNCHANGED <<argc, argv, err, logged, callLog, argv_execvp, heapAfter,
                   written, i, execLog, execRet, errtxt, freed>>

\* LOG_FATAL("Unrecognized command '%s'\n", argv[1]); return 1;
Unrecognized ==
    /\ pc = "main"
    /\ Branch(argc, argv) = "unrecognized"
    /\ taken' = taken \cup {"unrecognized"}
    /\ err' = err \o FatalText(argv[2])
    /\ logged' = Append(logged, [level |-> "fatal", text |-> FatalText(argv[2])])
    /\ ret' = <<1>>
    /\ pc' = "done"
    /\ UNCHANGED <<argc, argv, out, callLog, argv_execvp, heapAfter, written,
                   i, execLog, execRet, errtxt, freed>>

Next ==
    \/ Usage
    \/ Call
    \/ FilterCalloc
    \/ FilterStoreName
    \/ FilterLoop
    \/ FilterExecvp
    \/ FilterAfterExecvp
    \/ Version
    \/ Unrecognized

Spec == Init /\ [][Next]_vars

\* ------------------------------------------------------------ properties
\* the forwarded vector the filter path is to build: argv[0], argv[2], ...
Forwarded == [k \in 1..(argc - 1) |-> IF k = 1 THEN Ptr(argv[1]) ELSE Ptr(argv[k + 1])]

OnCall    == argc >= 2 /\ argv[2] = S_call
OnFilter  == argc >= 2 /\ argv[2] = S_filter
OnVersion == argc >= 2 /\ argv[2] = S_version
OnOther   == argc >= 2 /\ argv[2] \notin {S_call, S_filter, S_version}

\* C1: with argv[1] = "call", main calls main_call exactly once, with count
\* argc-1 and the vector argv[1..argc-1] ("call" first, order kept), and
\* returns exactly the value the handler returned.
C1_CallDelegation ==
    OnCall =>
        /\ Len(callLog) <= 1
        /\ pc # "main" =>
              /\ pc = "done"
              /\ Len(callLog) = 1
              /\ callLog[1].args.n = argc - 1
              /\ Len(callLog[1].args.v) = argc - 1
              /\ \A k \in 1..(argc - 1) : callLog[1].args.v[k] = argv[k + 1]
              /\ callLog[1].args.v[1] = S_call
              /\ ret = <<callLog[1].r>>

C1_Witness ==
    /\ OnCall /\ argc = 4 /\ argv[3] # argv[4]
    /\ pc = "done" /\ Len(callLog) = 1 /\ ret = <<7>>

\* C2: with argv[1] = "filter", the vector execvp receives for
\* "lofreq2_filter.py" is argv[0], argv[2], ..., argv[argc-1] and nothing else.
C2_ForwardedVector ==
    (OnFilter /\ execLog # <<>>) =>
        /\ Len(execLog) = 1
        /\ execLog[1].file = FILTER_EXE
        /\ execLog[1].args = Forwarded

\* C3: when execvp is called, the slot right after the last forwarded argument
\* lies inside the allocated block and holds the null pointer.
C3_NullTerminated ==
    (OnFilter /\ execLog # <<>>) =>
        /\ Cardinality(written) + 1 <= Len(execLog[1].slots)
        /\ execLog[1].slots[Cardinality(written) + 1] = NULL

\* C4: once execvp has replaced the process image no later step of main runs:
\* nothing is written, freed or returned, and the filter path never returns 0.
C4_NoReturnOnSuccess ==
    /\ [](pc = "replaced" => (ret = <<>> /\ ~freed /\ err = <<>> /\ out = <<>>))
    /\ []((OnFilter /\ pc = "done") => ret # <<0>>)
    /\ [][pc = "replaced" => UNCHANGED vars]_vars

C4_Witness == OnFilter /\ pc = "replaced" /\ execLog # <<>>

\* C5: every failure exit of the filter path, a failed allocation included,
\* writes an error description to stderr, frees the list and returns -1
\* without crashing.
C5_FailureExit ==
    (OnFilter /\ pc \in {"done", "crashed"}) =>
        /\ pc = "done"
        /\ ret = <<-1>>
        /\ freed
        /\ \E e \in Strerror : err = PerrorText(e)

\* C6: with argc < 2 (argc = 0 included) main prints the usage text to stderr
\* under the basename of argv[0], writes nothing to stdout, calls neither the
\* handler nor execvp, and returns 1.
C6_UsageExit ==
    (argc < 2 /\ pc # "main") =>
        /\ pc = "done"
        /\ ret = <<1>>
        /\ Contains(err, U_usage)
        /\ argc >= 1 => err = UsageText(BASENAME(argv[1]))
        /\ out = <<>>
        /\ callLog = <<>>
        /\ execLog = <<>>

\* C7: with argv[1] = "version", whatever follows, stdout holds exactly the
\* version string and one newline, stderr is empty, neither the handler nor
\* execvp is called, and main returns 0.
C7_Version ==
    OnVersion =>
        /\ callLog = <<>> /\ execLog = <<>> /\ err = <<>>
        /\ pc # "main" =>
              /\ pc = "done"
              /\ out = PACKAGE_VERSION \o <<10>>
              /\ ret = <<0>>

C7_Witness == OnVersion /\ argc = 4 /\ pc = "done" /\ out # <<>>

\* C8: with argv[1] none of "call", "filter", "version" (whole string, case
\* sensitive), main logs one fatal-level message containing argv[1], writes
\* nothing to stdout, calls neither the handler nor execvp, and returns 1.
C8_Unrecognized ==
    OnOther =>
        /\ callLog = <<>> /\ execLog = <<>> /\ out = <<>>
        /\ argv_execvp.null
        /\ pc # "main" =>
              /\ pc = "done"
              /\ Len(logged) = 1
              /\ logged[1].level = "fatal"
              /\ Contains(logged[1].text, argv[2])
              /\ Contains(err, argv[2])
              /\ ret = <<1>>

C8_Witness == OnOther /\ argv[2] = S_calls /\ pc = "done" /\ Len(logged) = 1

\* the outcome the arguments are to select, by whole-string equality of
\* argv[1] in the order call, filter, version
Expected ==
    IF argc < 2 THEN "usage"
    ELSE IF argv[2] = S_call THEN "call"
    ELSE IF argv[2] = S_filter THEN "filter"
    ELSE IF argv[2] = S_version THEN "version"
    ELSE "unrecognized"

\* C9: a run takes exactly one of the five outcomes, never two, and which one
\* is fixed by argc and argv[1] alone.
C9_OneOutcome ==
    /\ Cardinality(taken) <= 1
    /\ pc # "main" => taken = {Expected}
    /\ callLog # <<>> => taken = {"call"}
    /\ (execLog # <<>> \/ ~argv_execvp.null) => taken = {"filter"}
    /\ out # <<>> => taken = {"version"}
    /\ logged # <<>> => taken = {"unrecognized"}
    /\ (err # <<>> /\ logged = <<>>) => taken \in {{"usage"}, {"filter"}}

C9_Witness ==
    /\ argc = 3 /\ argv[2] = S_filter /\ argv[3] = S_x
    /\ pc = "exec_returned" /\ taken = {"filter"}

====
